---- MODULE Spec2Model ----
(***************************************************************************)
(* Model of the sz_pythonnet example scripts:                              *)
(*   add_data_sources.py, initialize_config.py and                         *)
(*   senzing_python_net_example.py (main and the SenzingClient class).     *)
(*                                                                         *)
(* Spec       : two script processes (each one of the three scripts) run   *)
(*              against one shared engine repository.                      *)
(* SpecClient : one caller uses a SenzingClient as a context manager and   *)
(*              drives its export and redo generators.                     *)
(* The engine itself is an external collaborator; only its contract        *)
(* (Engine* operators) is modelled.  Every engine call may raise, except   *)
(* Destroy, which is modelled as total.                                    *)
(***************************************************************************)
EXTENDS Integers, Sequences, FiniteSets, TLC

VARIABLES
    configFile,           \* config.json next to the scripts
    defaultId,            \* engine: default configuration ID (0 = none)
    registry,             \* engine: registry[id] = data-source codes of config id
    script,               \* script[p]: which script process p runs
    pc,                   \* pc[p]: position of process p
    env,                  \* env[p]: "none" | "open" | "destroyed"
    status,               \* status[p]: process exit status (valid when pc[p] = "exited")
    current_config_id,    \* add_data_sources: current_config_id
    config,               \* add_data_sources: in-memory config object (its registry)
    existing_ds,          \* add_data_sources: existing_ds
    data_sources_to_add,  \* add_data_sources: data_sources_to_add
    ds_i,                 \* add_data_sources: position of the registration loop
    regCalls,             \* codes passed to RegisterDataSource, in call order
    regFailed,            \* codes whose RegisterDataSource raised
    new_config_id,        \* add_data_sources: new_config_id / initialize_config: config_id
    calls,                \* calls[p][name]: engine calls issued by p, per method
    raised,               \* raised[p]: positions at which an exception was raised
    interfered,           \* interfered[p]: another writer changed the default after p read it
    seenDone,             \* seenDone[p]: a clean add_data_sources run had finished when p read the default
    client,               \* the caller and its SenzingClient object
    exportGen,            \* the export_json_entities generator
    redoGen,              \* the process_redo_records generator
    repo                  \* engine: entities left in the export cursor, pending redo records

scriptVars == <<configFile, defaultId, registry, script, pc, env, status,
          current_config_id, config, existing_ds, data_sources_to_add, ds_i,
          regCalls, regFailed, new_config_id, calls, raised, interfered, seenDone>>

clientVars == <<client, exportGen, redoGen, repo>>

vars == <<scriptVars, clientVars>>

Procs == {1, 2}

Scripts == {"add", "init", "example"}

\* The codes add_data_sources asks for, in list order.
Requested == <<"CUSTOMERS", "EMPLOYEES">>

RequestedSet == {Requested[i] : i \in 1..Len(Requested)}

\* Data sources of the g2config.json template.
TemplateRegistry == {"TEST"}

Keys == {"python.dll_path", "senzing.senzing_root"}

ConfigFiles ==
    {[kind |-> "missing", keys |-> {}], [kind |-> "malformed", keys |-> {}]}
    \cup {[kind |-> "ok", keys |-> k] : k \in SUBSET Keys}

EngineCalls ==
    {"Build", "GetEngine", "GetConfigManager", "GetProduct", "GetDefaultConfigID",
     "CreateConfig", "GetDataSourceRegistry", "RegisterDataSource", "Export",
     "RegisterConfig", "ReplaceDefaultConfigID", "SetDefaultConfigID", "Destroy",
     "GetVersion", "AddRecord", "GetEntity", "SearchByAttributes", "GetRecord",
     "WhyEntities", "HowEntity", "DeleteRecord"}

RECURSIVE SumCalls(_, _)
SumCalls(f, S) ==
    IF S = {} THEN 0
    ELSE LET n == CHOOSE x \in S : TRUE IN f[n] + SumCalls(f, S \ {n})

\* Number of engine calls process p has attempted.
TotalCalls(p) == SumCalls(calls[p], EngineCalls)

-----------------------------------------------------------------------------
(* Engine contract *)

EngineConfigExists(id) == id \in 1..Len(registry)

\* ReplaceDefaultConfigID(old, new) is a compare-and-swap on the default ID.
EngineReplaceAccepts(old) == defaultId = old

-----------------------------------------------------------------------------
(* Bookkeeping helpers *)

Goto(p, l) == pc' = [pc EXCEPT ![p] = l]

Note(p, name) == calls' = [calls EXCEPT ![p][name] = @ + 1]

Raise(p, at) == raised' = [raised EXCEPT ![p] = @ \cup {at}]

Exit(p, st) ==
    /\ pc' = [pc EXCEPT ![p] = "exited"]
    /\ status' = [status EXCEPT ![p] = st]

\* Positions of add_data_sources between its read of the default ID and its
\* ReplaceDefaultConfigID call.
BetweenReadAndReplace ==
    {"createconfig", "getregistry", "register", "export", "registerconfig", "replace"}

\* Process q has just changed the default: every add_data_sources run that is
\* between its read and its replace has been interfered with.
MarkInterfered(q) ==
    [p \in Procs |->
        interfered[p] \/ (p # q /\ script[p] = "add" /\ pc[p] \in BetweenReadAndReplace)]

addVars == <<current_config_id, config, existing_ds, data_sources_to_add, ds_i,
             regCalls, regFailed>>

engineVars == <<defaultId, registry>>

-----------------------------------------------------------------------------
(* Start-up code shared by the three scripts *)

\* load_config(): FileNotFoundError or a JSON parse error ends the process.
LoadConfig(p) ==
    /\ pc[p] = "load"
    /\ IF configFile.kind = "ok"
          THEN Goto(p, "dll") /\ UNCHANGED status
          ELSE Exit(p, 1)
    /\ UNCHANGED <<clientVars, configFile, engineVars, script, env, addVars, new_config_id,
                   calls, raised, interfered, seenDone>>

\* A lookup that never fails, as CONFIG.get(a, {}).get(b, default) would.
HasKeyDefaulted(k) == TRUE

\* CONFIG[a][b] finds its key; otherwise it raises KeyError.
HasKey(k) == k \in configFile.keys

\* os.environ["PYTHONNET_PYDLL"] = CONFIG["python"]["dll_path"], then the
\* best-effort runtime selection and "import clr".
SetDllPath(p) ==
    /\ pc[p] = "dll"
    /\ IF HasKey("python.dll_path")
          THEN Goto(p, "root") /\ UNCHANGED status
          ELSE Exit(p, 1)
    /\ UNCHANGED <<clientVars, configFile, engineVars, script, env, addVars, new_config_id,
                   calls, raised, interfered, seenDone>>

\* senzing_root = Path(CONFIG["senzing"]["senzing_root"]) and the settings.
SetSenzingRoot(p) ==
    /\ pc[p] = "root"
    /\ IF HasKey("senzing.senzing_root")
          THEN Goto(p, "build") /\ UNCHANGED status
          ELSE Exit(p, 1)
    /\ UNCHANGED <<clientVars, configFile, engineVars, script, env, addVars, new_config_id,
                   calls, raised, interfered, seenDone>>

\* clr.AddReference and SzCoreEnvironment...Build(), inside the try block.
\* AddReference may fail before Build is called; Build may raise.
BuildEnv(p) ==
    /\ pc[p] = "build"
    /\ \E outcome \in {"ok", "noref", "raise"} :
         /\ IF outcome = "noref" THEN UNCHANGED calls ELSE Note(p, "Build")
         /\ IF outcome = "ok"
               THEN /\ env' = [env EXCEPT ![p] = "open"]
                    /\ Goto(p, IF script[p] = "example" THEN "getengine" ELSE "getmgr")
                    /\ UNCHANGED raised
               ELSE /\ Raise(p, "build")
                    /\ Goto(p, "handler")
                    /\ UNCHANGED env
    /\ UNCHANGED <<clientVars, configFile, engineVars, script, status, addVars, new_config_id,
                   interfered, seenDone>>

\* config_mgr = env.GetConfigManager()
GetConfigManager(p) ==
    /\ script[p] \in {"add", "init"}
    /\ pc[p] = "getmgr"
    /\ Note(p, "GetConfigManager")
    /\ \E ok \in BOOLEAN :
         IF ok THEN Goto(p, IF script[p] = "add" THEN "getdefault" ELSE "check")
                    /\ UNCHANGED raised
               ELSE Raise(p, "getmgr") /\ Goto(p, "handler")
    /\ UNCHANGED <<clientVars, configFile, engineVars, script, env, status, addVars,
                   new_config_id, interfered, seenDone>>

\* env.Destroy() followed by sys.exit(st) or by falling off the end of the script.
DestroyAndExit(p) ==
    /\ pc[p] \in {"destroy0", "destroy1"}
    /\ Note(p, "Destroy")
    /\ env' = [env EXCEPT ![p] = "destroyed"]
    /\ Exit(p, IF pc[p] = "destroy0" THEN 0 ELSE 1)
    /\ UNCHANGED <<clientVars, configFile, engineVars, script, addVars, new_config_id,
                   raised, interfered, seenDone>>

\* except Exception as e: print, traceback, sys.exit(1)
TopLevelHandler(p) ==
    /\ script[p] \in {"add", "init"}
    /\ pc[p] = "handler"
    /\ Exit(p, 1)
    /\ UNCHANGED <<clientVars, configFile, engineVars, script, env, addVars, new_config_id,
                   calls, raised, interfered, seenDone>>

-----------------------------------------------------------------------------
(* add_data_sources.py *)

\* current_config_id = config_mgr.GetDefaultConfigID()
AddGetDefault(p) ==
    /\ script[p] = "add" /\ pc[p] = "getdefault"
    /\ Note(p, "GetDefaultConfigID")
    /\ \E ok \in BOOLEAN :
         IF ok
            THEN /\ current_config_id' = [current_config_id EXCEPT ![p] = defaultId]
                 /\ seenDone' = [seenDone EXCEPT ![p] =
                        \E q \in Procs \ {p} :
                            /\ script[q] = "add" /\ pc[q] = "exited"
                            /\ status[q] = 0 /\ raised[q] = {}]
                 /\ Goto(p, "createconfig")
                 /\ UNCHANGED raised
            ELSE /\ Raise(p, "getdefault") /\ Goto(p, "handler")
                 /\ UNCHANGED <<current_config_id, seenDone>>
    /\ UNCHANGED <<clientVars, configFile, engineVars, script, env, status, config, existing_ds,
                   data_sources_to_add, ds_i, regCalls, regFailed, new_config_id,
                   interfered>>

\* config = config_mgr.CreateConfig(current_config_id)
AddCreateConfig(p) ==
    /\ script[p] = "add" /\ pc[p] = "createconfig"
    /\ Note(p, "CreateConfig")
    /\ \E ok \in BOOLEAN :
         IF ok /\ EngineConfigExists(current_config_id[p])
            THEN /\ config' = [config EXCEPT ![p] = registry[current_config_id[p]]]
                 /\ Goto(p, "getregistry")
                 /\ UNCHANGED raised
            ELSE /\ Raise(p, "createconfig") /\ Goto(p, "handler")
                 /\ UNCHANGED config
    /\ UNCHANGED <<clientVars, configFile, engineVars, script, env, status, current_config_id,
                   existing_ds, data_sources_to_add, ds_i, regCalls, regFailed,
                   new_config_id, interfered, seenDone>>

\* Every requested code, whether it exists already or not.
ToAddAll(req, existing) == req

\* The requested codes that are not in the existing set, in list order.
RECURSIVE ToAdd(_, _)
ToAdd(req, existing) ==
    IF req = <<>> THEN <<>>
    ELSE IF Head(req) \notin existing
            THEN <<Head(req)>> \o ToAdd(Tail(req), existing)
            ELSE ToAdd(Tail(req), existing)

\* existing_ds from config.GetDataSourceRegistry(), then data_sources_to_add
\* and the "nothing to do" branch.
AddGetRegistry(p) ==
    /\ script[p] = "add" /\ pc[p] = "getregistry"
    /\ Note(p, "GetDataSourceRegistry")
    /\ \E ok \in BOOLEAN :
         IF ok
            THEN /\ existing_ds' = [existing_ds EXCEPT ![p] = config[p]]
                 /\ data_sources_to_add' =
                        [data_sources_to_add EXCEPT ![p] = ToAdd(Requested, config[p])]
                 /\ ds_i' = [ds_i EXCEPT ![p] = 1]
                 /\ Goto(p, IF ToAdd(Requested, config[p]) = <<>>
                               THEN "destroy0" ELSE "register")
                 /\ UNCHANGED raised
            ELSE /\ Raise(p, "getregistry") /\ Goto(p, "handler")
                 /\ UNCHANGED <<existing_ds, data_sources_to_add, ds_i>>
    /\ UNCHANGED <<clientVars, configFile, engineVars, script, env, status, current_config_id,
                   config, regCalls, regFailed, new_config_id, interfered, seenDone>>

\* A loop that gives up at the first RegisterDataSource failure.
AfterFailedRegisterAborting(p) == Len(data_sources_to_add[p]) + 1

\* Position of the registration loop after a RegisterDataSource call that raised:
\* the per-code handler prints and the loop goes on with the next code.
AfterFailedRegister(p) == ds_i[p] + 1

\* One iteration of "for ds_code in data_sources_to_add".
AddRegisterDataSource(p) ==
    /\ script[p] = "add" /\ pc[p] = "register"
    /\ ds_i[p] <= Len(data_sources_to_add[p])
    /\ LET ds_code == data_sources_to_add[p][ds_i[p]] IN
         /\ Note(p, "RegisterDataSource")
         /\ regCalls' = [regCalls EXCEPT ![p] = Append(@, ds_code)]
         /\ \E ok \in BOOLEAN :
              IF ok
                 THEN /\ config' = [config EXCEPT ![p] = @ \cup {ds_code}]
                      /\ ds_i' = [ds_i EXCEPT ![p] = @ + 1]
                      /\ UNCHANGED <<raised, regFailed>>
                 ELSE /\ Raise(p, "register")
                      /\ regFailed' = [regFailed EXCEPT ![p] = @ \cup {ds_code}]
                      /\ ds_i' = [ds_i EXCEPT ![p] = AfterFailedRegister(p)]
                      /\ UNCHANGED config
    /\ UNCHANGED <<clientVars, configFile, engineVars, script, pc, env, status, current_config_id,
                   existing_ds, data_sources_to_add, new_config_id, interfered, seenDone>>

\* new_config_json = config.Export(), after the loop has ended.
AddExport(p) ==
    /\ script[p] = "add" /\ pc[p] = "register"
    /\ ds_i[p] > Len(data_sources_to_add[p])
    /\ Note(p, "Export")
    /\ \E ok \in BOOLEAN :
         IF ok THEN Goto(p, "registerconfig") /\ UNCHANGED raised
               ELSE Raise(p, "export") /\ Goto(p, "handler")
    /\ UNCHANGED <<clientVars, configFile, engineVars, script, env, status, addVars,
                   new_config_id, interfered, seenDone>>

\* new_config_id = config_mgr.RegisterConfig(new_config_json, comment)
AddRegisterConfig(p) ==
    /\ script[p] = "add" /\ pc[p] = "registerconfig"
    /\ Note(p, "RegisterConfig")
    /\ \E ok \in BOOLEAN :
         IF ok
            THEN /\ registry' = Append(registry, config[p])
                 /\ new_config_id' = [new_config_id EXCEPT ![p] = Len(registry) + 1]
                 /\ Goto(p, "replace")
                 /\ UNCHANGED raised
            ELSE /\ Raise(p, "registerconfig") /\ Goto(p, "handler")
                 /\ UNCHANGED <<registry, new_config_id>>
    /\ UNCHANGED <<clientVars, configFile, defaultId, script, env, status, addVars,
                   interfered, seenDone>>

\* An expected old ID that is re-read at the time of the call (a blind overwrite).
ReplaceExpectedReread(p) == defaultId

\* The expected old ID passed to ReplaceDefaultConfigID: the ID read at the start.
ReplaceExpected(p) == current_config_id[p]

\* config_mgr.ReplaceDefaultConfigID(current_config_id, new_config_id)
AddReplaceDefault(p) ==
    /\ script[p] = "add" /\ pc[p] = "replace"
    /\ Note(p, "ReplaceDefaultConfigID")
    /\ \E ok \in BOOLEAN :
         IF ok /\ EngineReplaceAccepts(ReplaceExpected(p))
            THEN /\ defaultId' = new_config_id[p]
                 /\ interfered' = MarkInterfered(p)
                 /\ Goto(p, "verify")
                 /\ UNCHANGED raised
            ELSE /\ Raise(p, "replace") /\ Goto(p, "handler")
                 /\ UNCHANGED <<defaultId, interfered>>
    /\ UNCHANGED <<clientVars, configFile, registry, script, env, status, addVars,
                   new_config_id, seenDone>>

\* verify_id = config_mgr.GetDefaultConfigID()
AddVerify(p) ==
    /\ script[p] = "add" /\ pc[p] = "verify"
    /\ Note(p, "GetDefaultConfigID")
    /\ \E ok \in BOOLEAN :
         IF ok THEN Goto(p, "destroy0") /\ UNCHANGED raised
               ELSE Raise(p, "verify") /\ Goto(p, "handler")
    /\ UNCHANGED <<clientVars, configFile, engineVars, script, env, status, addVars,
                   new_config_id, interfered, seenDone>>

AddDataSources(p) ==
    \/ AddGetDefault(p)
    \/ AddCreateConfig(p)
    \/ AddGetRegistry(p)
    \/ AddRegisterDataSource(p)
    \/ AddExport(p)
    \/ AddRegisterConfig(p)
    \/ AddReplaceDefault(p)
    \/ AddVerify(p)

-----------------------------------------------------------------------------
(* initialize_config.py *)

\* existing_config_id = config_mgr.GetDefaultConfigID(); a valid ID (> 0) ends
\* the run, ID 0 or an exception goes on to create a configuration.
InitCheckExisting(p) ==
    /\ script[p] = "init" /\ pc[p] = "check"
    /\ Note(p, "GetDefaultConfigID")
    /\ \E ok \in BOOLEAN :
         IF ok
            THEN /\ Goto(p, IF defaultId > 0 THEN "destroy0" ELSE "template")
                 /\ UNCHANGED raised
            ELSE /\ Raise(p, "check") /\ Goto(p, "template")
    /\ UNCHANGED <<clientVars, configFile, engineVars, script, env, status, addVars,
                   new_config_id, interfered, seenDone>>

\* Reading the g2config.json template; a failure destroys the env and exits 1.
InitLoadTemplate(p) ==
    /\ script[p] = "init" /\ pc[p] = "template"
    /\ \E ok \in BOOLEAN :
         IF ok THEN Goto(p, "iregister") /\ UNCHANGED raised
               ELSE Raise(p, "template") /\ Goto(p, "destroy1")
    /\ UNCHANGED <<clientVars, configFile, engineVars, script, env, status, addVars,
                   new_config_id, calls, interfered, seenDone>>

\* config_id = config_mgr.RegisterConfig(config_json, comment)
InitRegisterConfig(p) ==
    /\ script[p] = "init" /\ pc[p] = "iregister"
    /\ Note(p, "RegisterConfig")
    /\ \E ok \in BOOLEAN :
         IF ok
            THEN /\ registry' = Append(registry, TemplateRegistry)
                 /\ new_config_id' = [new_config_id EXCEPT ![p] = Len(registry) + 1]
                 /\ Goto(p, "setdefault")
                 /\ UNCHANGED raised
            ELSE /\ Raise(p, "iregister") /\ Goto(p, "destroy1")
                 /\ UNCHANGED <<registry, new_config_id>>
    /\ UNCHANGED <<clientVars, configFile, defaultId, script, env, status, addVars,
                   interfered, seenDone>>

\* config_mgr.SetDefaultConfigID(config_id): an unconditional write.
InitSetDefault(p) ==
    /\ script[p] = "init" /\ pc[p] = "setdefault"
    /\ Note(p, "SetDefaultConfigID")
    /\ \E ok \in BOOLEAN :
         IF ok
            THEN /\ defaultId' = new_config_id[p]
                 /\ interfered' = MarkInterfered(p)
                 /\ Goto(p, "iverify")
                 /\ UNCHANGED raised
            ELSE /\ Raise(p, "setdefault") /\ Goto(p, "destroy1")
                 /\ UNCHANGED <<defaultId, interfered>>
    /\ UNCHANGED <<clientVars, configFile, registry, script, env, status, addVars,
                   new_config_id, seenDone>>

\* default_id = config_mgr.GetDefaultConfigID(); a failure is only printed.
InitVerify(p) ==
    /\ script[p] = "init" /\ pc[p] = "iverify"
    /\ Note(p, "GetDefaultConfigID")
    /\ \E ok \in BOOLEAN :
         IF ok THEN UNCHANGED raised ELSE Raise(p, "iverify")
    /\ Goto(p, "destroy0")
    /\ UNCHANGED <<clientVars, configFile, engineVars, script, env, status, addVars,
                   new_config_id, interfered, seenDone>>

InitializeConfig(p) ==
    \/ InitCheckExisting(p)
    \/ InitLoadTemplate(p)
    \/ InitRegisterConfig(p)
    \/ InitSetDefault(p)
    \/ InitVerify(p)

-----------------------------------------------------------------------------
(* senzing_python_net_example.py: main() *)

\* The rest of SenzingClient.__init__ after Build: the three service getters.
CtorSteps == <<"getengine", "getcfgmgr", "getproduct">>

CtorCall(l) ==
    CASE l = "getengine" -> "GetEngine"
      [] l = "getcfgmgr" -> "GetConfigManager"
      [] l = "getproduct" -> "GetProduct"

\* The calls of the with-body before the why/how block, in order.
MainSteps == <<"get_version", "add1", "add2", "add3", "add4", "get_entity",
               "search", "get_record">>

MainCall(l) ==
    CASE l = "get_version" -> "GetVersion"
      [] l \in {"add1", "add2", "add3", "add4"} -> "AddRecord"
      [] l = "get_entity" -> "GetEntity"
      [] l = "search" -> "SearchByAttributes"
      [] l = "get_record" -> "GetRecord"

IndexOf(seq, l) == CHOOSE i \in 1..Len(seq) : seq[i] = l

InSeq(seq, l) == \E i \in 1..Len(seq) : seq[i] = l

NextIn(seq, l, after) ==
    IF IndexOf(seq, l) = Len(seq) THEN after ELSE seq[IndexOf(seq, l) + 1]

\* self.engine / self.config_mgr / self.product: an exception leaves the
\* constructor, so the with-block is never entered and __exit__ never runs.
MainConstruct(p) ==
    /\ script[p] = "example" /\ InSeq(CtorSteps, pc[p])
    /\ Note(p, CtorCall(pc[p]))
    /\ \E ok \in BOOLEAN :
         IF ok THEN Goto(p, NextIn(CtorSteps, pc[p], MainSteps[1])) /\ UNCHANGED raised
               ELSE Raise(p, pc[p]) /\ Goto(p, "handler")
    /\ UNCHANGED <<clientVars, configFile, engineVars, script, env, status, addVars,
                   new_config_id, interfered, seenDone>>

\* One client call of the with-body; an exception leaves the with-block.
MainBodyCall(p) ==
    /\ script[p] = "example" /\ InSeq(MainSteps, pc[p])
    /\ Note(p, MainCall(pc[p]))
    /\ \E ok \in BOOLEAN :
         IF ok THEN Goto(p, NextIn(MainSteps, pc[p], "why1")) /\ UNCHANGED raised
               ELSE Raise(p, pc[p]) /\ Goto(p, "exit_exc")
    /\ UNCHANGED <<clientVars, configFile, engineVars, script, env, status, addVars,
                   new_config_id, interfered, seenDone>>

\* Where main goes after an exception inside the why/how try block: the inner
\* handler prints it and main goes on with the delete step.
AfterWhyHowFailure == "delete"

\* The two get_entity_by_record calls of the why/how block.
MainWhyLookup(p) ==
    /\ script[p] = "example" /\ pc[p] \in {"why1", "why2"}
    /\ Note(p, "GetEntity")
    /\ \E ok \in BOOLEAN :
         IF ok THEN Goto(p, IF pc[p] = "why1" THEN "why2" ELSE "whyhow")
                    /\ UNCHANGED raised
               ELSE Raise(p, pc[p]) /\ Goto(p, AfterWhyHowFailure)
    /\ UNCHANGED <<clientVars, configFile, engineVars, script, env, status, addVars,
                   new_config_id, interfered, seenDone>>

\* why_entities when the two entity IDs differ, how_entity when they are equal.
MainWhyHow(p) ==
    /\ script[p] = "example" /\ pc[p] = "whyhow"
    /\ \E same \in BOOLEAN :
         Note(p, IF same THEN "HowEntity" ELSE "WhyEntities")
    /\ \E ok \in BOOLEAN :
         IF ok THEN Goto(p, "delete") /\ UNCHANGED raised
               ELSE Raise(p, "whyhow") /\ Goto(p, AfterWhyHowFailure)
    /\ UNCHANGED <<clientVars, configFile, engineVars, script, env, status, addVars,
                   new_config_id, interfered, seenDone>>

\* delete_result = client.delete_record("CUSTOMERS", "CUST002")
MainDelete(p) ==
    /\ script[p] = "example" /\ pc[p] = "delete"
    /\ Note(p, "DeleteRecord")
    /\ \E ok \in BOOLEAN :
         IF ok THEN Goto(p, "exit_ok") /\ UNCHANGED raised
               ELSE Raise(p, "delete") /\ Goto(p, "exit_exc")
    /\ UNCHANGED <<clientVars, configFile, engineVars, script, env, status, addVars,
                   new_config_id, interfered, seenDone>>

\* __exit__ -> cleanup(): Destroy when self.env is set; then main returns 0, or
\* its handler returns 1 for the exception that left the with-block.
MainExitBlock(p) ==
    /\ script[p] = "example" /\ pc[p] \in {"exit_ok", "exit_exc"}
    /\ IF env[p] # "none"
          THEN Note(p, "Destroy") /\ env' = [env EXCEPT ![p] = "destroyed"]
          ELSE UNCHANGED <<calls, env>>
    /\ Exit(p, IF pc[p] = "exit_ok" THEN 0 ELSE 1)
    /\ UNCHANGED <<clientVars, configFile, engineVars, script, addVars, new_config_id,
                   raised, interfered, seenDone>>

\* except Exception as e: print, traceback, return 1 (constructor failures)
MainHandler(p) ==
    /\ script[p] = "example" /\ pc[p] = "handler"
    /\ Exit(p, 1)
    /\ UNCHANGED <<clientVars, configFile, engineVars, script, env, addVars, new_config_id,
                   calls, raised, interfered, seenDone>>

ExampleMain(p) ==
    \/ MainConstruct(p)
    \/ MainBodyCall(p)
    \/ MainWhyLookup(p)
    \/ MainWhyHow(p)
    \/ MainDelete(p)
    \/ MainExitBlock(p)
    \/ MainHandler(p)

-----------------------------------------------------------------------------
(* The scripts run against one repository *)

\* Registries a repository's first configuration can have.
InitialRegistries == {TemplateRegistry \cup s : s \in SUBSET RequestedSet}

Startup(p) ==
    \/ LoadConfig(p)
    \/ SetDllPath(p)
    \/ SetSenzingRoot(p)
    \/ BuildEnv(p)
    \/ GetConfigManager(p)
    \/ DestroyAndExit(p)
    \/ TopLevelHandler(p)

\* The client of SpecClient before it is constructed; unused under Spec.
ClientIdle ==
    /\ client = [pos |-> "new", env |-> "unset", destroyCalls |-> 0, cleanups |-> 0,
                 result |-> "none", afterDestroy |-> {}]
    /\ exportGen = [state |-> "none", max_entities |-> 0, count |-> 0,
                    json_data |-> FALSE, export_handle |-> "none", closeCalls |-> 0,
                    yielded |-> 0, end |-> "none"]
    /\ redoGen = [state |-> "none", max_records |-> 0, processed |-> 0,
                  redo_record |-> FALSE, gotRecords |-> 0, processCalls |-> 0,
                  yielded |-> 0, end |-> "none"]

ScriptsInit ==
    /\ configFile \in ConfigFiles
    /\ \/ registry = <<>> /\ defaultId = 0
       \/ \E r \in InitialRegistries : registry = <<r>> /\ defaultId \in {0, 1}
    /\ script \in [Procs -> Scripts]
    /\ pc = [p \in Procs |-> "load"]
    /\ env = [p \in Procs |-> "none"]
    /\ status = [p \in Procs |-> 0]
    /\ current_config_id = [p \in Procs |-> 0]
    /\ config = [p \in Procs |-> {}]
    /\ existing_ds = [p \in Procs |-> {}]
    /\ data_sources_to_add = [p \in Procs |-> <<>>]
    /\ ds_i = [p \in Procs |-> 1]
    /\ regCalls = [p \in Procs |-> <<>>]
    /\ regFailed = [p \in Procs |-> {}]
    /\ new_config_id = [p \in Procs |-> 0]
    /\ calls = [p \in Procs |-> [n \in EngineCalls |-> 0]]
    /\ raised = [p \in Procs |-> {}]
    /\ interfered = [p \in Procs |-> FALSE]
    /\ seenDone = [p \in Procs |-> FALSE]

Init ==
    /\ ScriptsInit
    /\ ClientIdle
    /\ repo = [entities |-> 0, entities0 |-> 0, pending |-> 0, pending0 |-> 0]

Next ==
    \E p \in Procs :
        \/ Startup(p)
        \/ AddDataSources(p)
        \/ InitializeConfig(p)
        \/ ExampleMain(p)

Spec == Init /\ [][Next]_vars

-----------------------------------------------------------------------------
(* senzing_python_net_example.py: a caller of SenzingClient (SpecClient) *)

\* Entities in the export, and redo records pending, at the start.
MaxAvail == 3

\* Largest max_entities / max_records a caller passes.
MaxCap == 2

\* Explicit cleanup() calls a caller makes inside the with-block.
MaxCleanup == 1

\* max_entities=None
NoCap == -1

\* Engine calls issued through the client after env.Destroy().
Late(names) ==
    IF client.env = "destroyed" THEN client.afterDestroy \cup names
    ELSE client.afterDestroy

\* cleanup(): Destroy when the object has an env attribute that is not None.
Cleanup(c) ==
    IF c.env # "unset"
       THEN [c EXCEPT !.env = "destroyed", !.destroyCalls = @ + 1]
       ELSE c

\* "with SenzingClient(sdk_path, settings) as client": __init__ and __enter__.
\* AddReference or Build may raise before self.env is assigned; a service
\* getter may raise after it, and then the with-block is never entered.
ClientConstruct ==
    /\ client.pos = "new"
    /\ \E outcome \in {"ok", "noref", "build", "getter"} :
         client' = CASE outcome = "ok" ->
                          [client EXCEPT !.pos = "body", !.env = "open"]
                     [] outcome = "getter" ->
                          [client EXCEPT !.pos = "done", !.env = "open",
                                         !.result = "ctor_raised"]
                     [] OTHER ->
                          [client EXCEPT !.pos = "done", !.result = "ctor_raised"]
    /\ UNCHANGED <<exportGen, redoGen, repo, scriptVars>>

\* An explicit client.cleanup() inside the with-block.
ClientCleanup ==
    /\ client.pos = "body"
    /\ client.cleanups < MaxCleanup
    /\ client' = [Cleanup(client) EXCEPT !.cleanups = @ + 1]
    /\ UNCHANGED <<exportGen, redoGen, repo, scriptVars>>

\* The with-body ends, normally or by an exception: __exit__ calls cleanup().
ClientExit ==
    /\ client.pos = "body"
    /\ \E exc \in BOOLEAN :
         client' = [Cleanup(client) EXCEPT
                       !.pos = "done",
                       !.result = IF exc THEN "body_raised" ELSE "normal"]
    /\ UNCHANGED <<exportGen, redoGen, repo, scriptVars>>

\* "if max_entities and count >= max_entities": None and 0 are both falsy.
CapReached(max_entities, count) ==
    max_entities # NoCap /\ max_entities # 0 /\ count >= max_entities

\* A generator that closes the cursor after its loop, without try/finally.
ClosesAfterLoopOnly(reason) == reason \in {"exhausted", "cap"}

\* The finally block runs CloseExport however the try block is left.
ClosesOn(reason) == TRUE

\* Leaving the try block of export_json_entities for the given reason.
Finally(g, reason) ==
    [g EXCEPT !.state = "finished",
              !.end = reason,
              !.export_handle = IF ClosesOn(reason) THEN "closed" ELSE @,
              !.closeCalls = IF ClosesOn(reason) THEN @ + 1 ELSE @]

\* The while loop of export_json_entities after a FetchNext that returned.
AfterFetch(g, got, fault) ==
    IF ~got THEN Finally([g EXCEPT !.json_data = FALSE], "exhausted")
    ELSE IF CapReached(g.max_entities, g.count)
            THEN Finally([g EXCEPT !.json_data = TRUE], "cap")
    ELSE IF fault = "decode"
            THEN Finally([g EXCEPT !.json_data = TRUE], "error")
    ELSE [g EXCEPT !.json_data = TRUE, !.state = "suspended", !.yielded = @ + 1]

\* client.export_json_entities(max_entities): creates the generator; no code
\* of the generator runs before the first next().
ExportStart ==
    /\ client.pos = "body"
    /\ exportGen.state = "none"
    /\ \E m \in {NoCap} \cup 0..MaxCap :
         exportGen' = [exportGen EXCEPT !.state = "created", !.max_entities = m]
    /\ UNCHANGED <<client, redoGen, repo, scriptVars>>

\* next() on the export generator: runs it to its next yield or to its end.
ExportNext ==
    /\ client.pos \in {"body", "done"}
    /\ exportGen.state \in {"created", "suspended"}
    /\ \E fault \in {"none", "open", "fetch", "decode"} :
         /\ fault = "open" => exportGen.state = "created"
         /\ IF fault = "open"
               THEN /\ exportGen' = [exportGen EXCEPT !.state = "finished",
                                                      !.end = "error"]
                    /\ client' = [client EXCEPT
                                     !.afterDestroy = Late({"ExportJsonEntityReport"})]
                    /\ UNCHANGED repo
               ELSE LET g == IF exportGen.state = "created"
                                THEN [exportGen EXCEPT !.export_handle = "open",
                                                       !.count = 0]
                                ELSE [exportGen EXCEPT !.count = @ + 1]
                        got == repo.entities > 0
                        g2 == IF fault = "fetch" THEN Finally(g, "error")
                              ELSE AfterFetch(g, got, fault)
                        called ==
                            {"FetchNext"}
                            \cup (IF exportGen.state = "created"
                                     THEN {"ExportJsonEntityReport"} ELSE {})
                            \cup (IF g2.closeCalls > g.closeCalls
                                     THEN {"CloseExport"} ELSE {})
                    IN /\ exportGen' = g2
                       /\ repo' = IF fault # "fetch" /\ got
                                     THEN [repo EXCEPT !.entities = @ - 1]
                                     ELSE repo
                       /\ client' = [client EXCEPT !.afterDestroy = Late(called)]
    /\ UNCHANGED <<redoGen, scriptVars>>

\* The consumer stops early: break, close() or garbage collection of the
\* generator raises GeneratorExit at the yield; a generator that never ran
\* just ends.
ExportClose ==
    /\ client.pos \in {"body", "done"}
    /\ exportGen.state \in {"created", "suspended"}
    /\ IF exportGen.state = "created"
          THEN /\ exportGen' = [exportGen EXCEPT !.state = "finished",
                                                 !.end = "unstarted"]
               /\ UNCHANGED client
          ELSE /\ exportGen' = Finally(exportGen, "closed")
               /\ client' = [client EXCEPT !.afterDestroy =
                                Late(IF ClosesOn("closed") THEN {"CloseExport"} ELSE {})]
    /\ UNCHANGED <<redoGen, repo, scriptVars>>

\* A loop that lets one record too many through.
RedoContinueInclusive(redo_record, processed, max_records) ==
    redo_record /\ processed <= max_records

\* "while redo_record is not None and processed < max_records"
RedoContinue(redo_record, processed, max_records) ==
    redo_record /\ processed < max_records

\* client.process_redo_records(max_records): creates the generator.
RedoStart ==
    /\ client.pos = "body"
    /\ redoGen.state = "none"
    /\ \E m \in 0..MaxCap :
         redoGen' = [redoGen EXCEPT !.state = "created", !.max_records = m]
    /\ UNCHANGED <<client, exportGen, repo, scriptVars>>

\* next() on the redo generator: runs it to its next yield or to its end.
RedoNext ==
    /\ client.pos \in {"body", "done"}
    /\ redoGen.state \in {"created", "suspended"}
    /\ \E fault \in {"none", "get", "process", "decode"} :
         LET g0 == IF redoGen.state = "created"
                      THEN [redoGen EXCEPT !.processed = 0]
                      ELSE [redoGen EXCEPT !.processed = @ + 1]
             got == repo.pending > 0
             g1 == [g0 EXCEPT !.redo_record = got,
                              !.gotRecords = IF got THEN @ + 1 ELSE @]
             goes == RedoContinue(got, g1.processed, g1.max_records)
         IN IF fault = "get"
               THEN /\ redoGen' = [g0 EXCEPT !.state = "finished", !.end = "error"]
                    /\ client' = [client EXCEPT
                                     !.afterDestroy = Late({"GetRedoRecord"})]
                    /\ UNCHANGED repo
               ELSE /\ repo' = IF got THEN [repo EXCEPT !.pending = @ - 1] ELSE repo
                    /\ redoGen' =
                         IF ~goes
                            THEN [g1 EXCEPT !.state = "finished", !.end = "done"]
                         ELSE IF fault \in {"process", "decode"}
                            THEN [g1 EXCEPT !.processCalls = @ + 1,
                                            !.state = "finished", !.end = "error"]
                         ELSE [g1 EXCEPT !.processCalls = @ + 1,
                                         !.yielded = @ + 1,
                                         !.state = "suspended"]
                    /\ client' = [client EXCEPT !.afterDestroy =
                                     Late({"GetRedoRecord"}
                                          \cup (IF goes THEN {"ProcessRedoRecord"}
                                                        ELSE {}))]
    /\ UNCHANGED <<exportGen, scriptVars>>

\* The consumer drops the redo generator before it is exhausted.
RedoClose ==
    /\ client.pos \in {"body", "done"}
    /\ redoGen.state \in {"created", "suspended"}
    /\ redoGen' = [redoGen EXCEPT !.state = "finished", !.end = "closed"]
    /\ UNCHANGED <<client, exportGen, repo, scriptVars>>

\* No script process runs under SpecClient.
ScriptsIdle ==
    /\ configFile = [kind |-> "ok", keys |-> Keys]
    /\ registry = <<>> /\ defaultId = 0
    /\ script = [p \in Procs |-> "none"]
    /\ pc = [p \in Procs |-> "exited"]
    /\ env = [p \in Procs |-> "none"]
    /\ status = [p \in Procs |-> 0]
    /\ current_config_id = [p \in Procs |-> 0]
    /\ config = [p \in Procs |-> {}]
    /\ existing_ds = [p \in Procs |-> {}]
    /\ data_sources_to_add = [p \in Procs |-> <<>>]
    /\ ds_i = [p \in Procs |-> 1]
    /\ regCalls = [p \in Procs |-> <<>>]
    /\ regFailed = [p \in Procs |-> {}]
    /\ new_config_id = [p \in Procs |-> 0]
    /\ calls = [p \in Procs |-> [n \in EngineCalls |-> 0]]
    /\ raised = [p \in Procs |-> {}]
    /\ interfered = [p \in Procs |-> FALSE]
    /\ seenDone = [p \in Procs |-> FALSE]

ClientInit ==
    /\ ScriptsIdle
    /\ ClientIdle
    /\ \E e \in 0..MaxAvail, r \in 0..MaxAvail :
         repo = [entities |-> e, entities0 |-> e, pending |-> r, pending0 |-> r]

ClientNext ==
    \/ ClientConstruct
    \/ ClientCleanup
    \/ ClientExit
    \/ ExportStart
    \/ ExportNext
    \/ ExportClose
    \/ RedoStart
    \/ RedoNext
    \/ RedoClose

SpecClient == ClientInit /\ [][ClientNext]_vars

-----------------------------------------------------------------------------
(* Properties of the scripts (specification Spec) *)

Exited(p) == pc[p] = "exited"

\* The ReplaceDefaultConfigID call of p has returned without raising.
Replaced(p) ==
    /\ script[p] = "add"
    /\ calls[p]["ReplaceDefaultConfigID"] = 1
    /\ pc[p] # "replace"
    /\ "replace" \notin raised[p]

\* C1: ReplaceDefaultConfigID succeeds only if the default still equals the
\* current_config_id read at the start of the run; when another writer changed
\* the default in between, the call fails and the default stays what that
\* writer set.
C1_ReplaceIsCompareAndSwap ==
    [][\A p \in Procs :
          (script[p] = "add" /\ pc[p] = "replace" /\ pc'[p] # "replace") =>
              /\ pc'[p] = "verify" =>
                    /\ defaultId = current_config_id[p]
                    /\ ~interfered[p]
                    /\ defaultId' = new_config_id[p]
              /\ interfered[p] =>
                    /\ pc'[p] = "handler"
                    /\ "replace" \in raised'[p]
                    /\ defaultId' = defaultId
                    /\ defaultId' # current_config_id[p]]_vars

C1_Witness ==
    \E p \in Procs :
        /\ script[p] = "add" /\ Exited(p) /\ status[p] = 1
        /\ interfered[p]
        /\ raised[p] = {"replace"}
        /\ new_config_id[p] > 0
        /\ defaultId \notin {0, current_config_id[p], new_config_id[p]}

\* C2: in every run of add_data_sources or initialize_config that built its
\* environment, env.Destroy() has been called exactly once when the process
\* exits.
C2_DestroyExactlyOnce ==
    \A p \in Procs :
        (script[p] \in {"add", "init"} /\ Exited(p) /\ env[p] # "none") =>
            calls[p]["Destroy"] = 1

\* C6: a code found in the existing registry gets no RegisterDataSource call;
\* when both requested codes are found the run issues no RegisterDataSource,
\* RegisterConfig or ReplaceDefaultConfigID call and exits with status 0; a run
\* that starts after a clean run of the script changes nothing.
C6_PresentIsNoOp ==
    \A p \in Procs :
        script[p] = "add" =>
            /\ \A i \in 1..Len(regCalls[p]) : regCalls[p][i] \notin existing_ds[p]
            /\ (RequestedSet \subseteq existing_ds[p] \/ seenDone[p]) =>
                  /\ calls[p]["RegisterDataSource"] = 0
                  /\ regCalls[p] = <<>>
                  /\ calls[p]["RegisterConfig"] = 0
                  /\ calls[p]["ReplaceDefaultConfigID"] = 0
                  /\ calls[p]["SetDefaultConfigID"] = 0
            /\ (RequestedSet \subseteq existing_ds[p] /\ Exited(p)) =>
                  /\ status[p] = 0
                  /\ calls[p]["Destroy"] = 1

C6_Witness ==
    \E p, q \in Procs :
        /\ p # q /\ script[p] = "add" /\ script[q] = "add"
        /\ regCalls[q] = Requested /\ Replaced(q)
        /\ seenDone[p] /\ Exited(p) /\ status[p] = 0
        /\ RequestedSet \subseteq existing_ds[p]
        /\ defaultId = new_config_id[q]

\* C7: a run with N requested codes absent issues exactly N RegisterDataSource
\* calls, and the registry of the configuration it makes the default is the
\* union of the prior registry and the requested codes.
C7_RegistersUnion ==
    \A p \in Procs :
        Replaced(p) =>
            /\ Len(regCalls[p]) = Cardinality(RequestedSet \ existing_ds[p])
            /\ registry[new_config_id[p]] = existing_ds[p] \cup RequestedSet


\* The loop of add_data_sources has ended: Export has been called.
LoopEnded(p) == script[p] = "add" /\ calls[p]["Export"] > 0

\* C9: a RegisterDataSource failure does not abort the batch: the calls are
\* issued in list order, and once the loop has ended every code of
\* data_sources_to_add has had its call, whatever calls failed.
C9_FailureDoesNotAbortBatch ==
    \A p \in Procs :
        script[p] = "add" =>
            /\ Len(regCalls[p]) <= Len(data_sources_to_add[p])
            /\ regCalls[p] = SubSeq(data_sources_to_add[p], 1, Len(regCalls[p]))
            /\ LoopEnded(p) => regCalls[p] = data_sources_to_add[p]

C9_Witness ==
    \E p \in Procs :
        /\ LoopEnded(p)
        /\ data_sources_to_add[p] = Requested
        /\ regFailed[p] = {"CUSTOMERS"}
        /\ regCalls[p] = Requested
        /\ config[p] = existing_ds[p] \cup {"EMPLOYEES"}

\* The configuration file is missing, unreadable or lacks a required key.
BadConfigFile == configFile.kind # "ok" \/ ~(Keys \subseteq configFile.keys)

\* Exceptions that count as errors.  The GetDefaultConfigID probe at the start
\* of initialize_config uses its exception as the answer "no configuration
\* exists", so that one is not counted.
Errors(p) == raised[p] \ {"check"}

\* C8: a script exits with status 1 whenever an error was raised by one of its
\* calls (a failed verification, RegisterDataSource or why/how call included),
\* and with status 0 when none was and its configuration file is good.
C8_ExitStatus ==
    \A p \in Procs :
        Exited(p) =>
            /\ Errors(p) # {} => status[p] = 1
            /\ (raised[p] = {} /\ ~BadConfigFile) => status[p] = 0

\* C10: with a configuration file that is missing or lacks a required key,
\* every script fails before any engine session is opened: no Build call and
\* no other engine call is attempted.
C10_BadConfigNoEngineCall ==
    \A p \in Procs :
        BadConfigFile =>
            /\ TotalCalls(p) = 0
            /\ env[p] = "none"
            /\ pc[p] \in {"load", "dll", "root", "exited"}
            /\ Exited(p) => status[p] = 1

C10_Witness ==
    \E p \in Procs :
        /\ script[p] = "example"
        /\ configFile = [kind |-> "ok", keys |-> {"python.dll_path"}]
        /\ Exited(p) /\ status[p] = 1
        /\ TotalCalls(p) = 0

-----------------------------------------------------------------------------
(* Properties of SenzingClient (specification SpecClient) *)

Min(a, b) == IF a <= b THEN a ELSE b

\* C3: once the client's environment has been built, leaving the with
\* statement (constructor failure included, explicit cleanup() included) has
\* called env.Destroy() exactly once.
C3_ScopedDestroyOnce ==
    (client.pos = "done" /\ client.env # "unset") => client.destroyCalls = 1

\* C4: every export cursor that was opened gets exactly one CloseExport call,
\* issued when the generator ends, however it ends; a cursor still in use has
\* not been closed, and no CloseExport is issued without a cursor.
C4_ExportClosedExactlyOnce ==
    /\ exportGen.closeCalls <= 1
    /\ exportGen.export_handle = "none" => exportGen.closeCalls = 0
    /\ exportGen.state \in {"none", "created", "suspended"} => exportGen.closeCalls = 0
    /\ (exportGen.state = "finished" /\ exportGen.export_handle # "none") =>
          /\ exportGen.closeCalls = 1
          /\ exportGen.export_handle = "closed"

C4_Witness ==
    /\ exportGen.state = "finished"
    /\ exportGen.end = "closed"
    /\ exportGen.max_entities = NoCap
    /\ exportGen.yielded = 1
    /\ repo.entities > 0
    /\ exportGen.closeCalls = 1

\* C5: process_redo_records(max_records=N) never processes more than N
\* records, and consumed to completion it has processed and yielded exactly
\* min(pending, N).
C5_RedoProcessesMinOfPendingAndCap ==
    /\ redoGen.processCalls <= redoGen.max_records
    /\ redoGen.yielded <= redoGen.processCalls
    /\ redoGen.end = "done" =>
          /\ redoGen.yielded = Min(repo.pending0, redoGen.max_records)
          /\ redoGen.processCalls = redoGen.yielded

C5_Witness ==
    /\ redoGen.end = "done"
    /\ redoGen.max_records = 2
    /\ repo.pending0 = 3
    /\ redoGen.yielded = 2

\* C11: export_json_entities(max_entities=k) with an integer k >= 0 never
\* yields more than k entities, and run to its end it has yielded exactly
\* min(available, k); only max_entities=None yields everything.
C11_ExportYieldsAtMostCap ==
    exportGen.max_entities # NoCap =>
        /\ exportGen.yielded <= exportGen.max_entities
        /\ exportGen.end \in {"exhausted", "cap"} =>
              exportGen.yielded = Min(repo.entities0, exportGen.max_entities)

\* The case C12 names: the caller never calls cleanup() by hand, made all its
\* calls on the export generator inside the with-block and left it
\* un-exhausted, and the generator was finalized after the with-block.
FinalizedAfterExit ==
    /\ client.pos = "done"
    /\ client.cleanups = 0
    /\ exportGen.end = "closed"
    /\ client.afterDestroy \subseteq {"CloseExport"}

\* C12: no engine call is issued through a SenzingClient after its
\* environment has been destroyed; in particular the CloseExport of an export
\* generator that is still un-exhausted when the with-block exits, and is
\* finalized later, happens before env.Destroy().
C12_NoEngineCallAfterDestroy ==
    FinalizedAfterExit => client.afterDestroy = {}

\* C13: process_redo_records never drops a redo record: when the generator
\* has run to its end, every record GetRedoRecord returned has been passed to
\* ProcessRedoRecord.
C13_NoRedoRecordDropped ==
    redoGen.end = "done" => redoGen.gotRecords = redoGen.processCalls


\* Process p is the only configuration writer so far: the other process has
\* issued none of the calls that write a configuration or the default ID.
NoOtherWriter(p) ==
    \A q \in Procs \ {p} :
        /\ calls[q]["RegisterConfig"] = 0
        /\ calls[q]["SetDefaultConfigID"] = 0
        /\ calls[q]["ReplaceDefaultConfigID"] = 0

\* C14: a run of add_data_sources that made its new configuration the
\* default ends with status 0 only if every RegisterDataSource call it issued
\* succeeded; after any run that ends with status 0, with no other writer,
\* both requested codes are in the registry of the default configuration.
C14_SuccessMeansAllRegistered ==
    \A p \in Procs :
        (script[p] = "add" /\ Exited(p) /\ status[p] = 0) =>
            /\ Replaced(p) => regFailed[p] = {}
            /\ NoOtherWriter(p) =>
                  /\ EngineConfigExists(defaultId)
                  /\ RequestedSet \subseteq registry[defaultId]


\* C15: initialize_config never overwrites a valid default configuration: a
\* run whose existence check returned an ID > 0 issues neither RegisterConfig
\* nor SetDefaultConfigID, and when the SetDefaultConfigID of a run whose check
\* returned succeeds, no default ID > 0 exists, whatever another writer did
\* since the check.
C15_NeverOverwritesValidDefault ==
    [][\A p \in Procs :
          script[p] = "init" =>
              /\ (pc[p] = "check" /\ pc'[p] = "template" /\ "check" \notin raised'[p]) =>
                    defaultId <= 0
              /\ (pc[p] = "setdefault" /\ pc'[p] = "iverify" /\ "check" \notin raised[p]) =>
                    defaultId <= 0]_vars

====
